---- MODULE Spec2Model ----
(***************************************************************************)
(* Model of inoe, a terminal viewer for conference schedules: the schedule *)
(* store built by the import conversion (state/schedule), the grid layout  *)
(* (ui/grid.rs) and the selection / mode state machine (state/store.rs).   *)
(*                                                                         *)
(* DateTime values are naturals (seconds), Option<T> is a sequence of      *)
(* length 0 (None) or 1 (Some), ids are naturals.                          *)
(***************************************************************************)
EXTENDS Integers, Sequences, FiniteSets, TLC

VARIABLES
    schedule,      \* State::schedule: [events, persons, time_map]
    mode,          \* State::mode
    selection,     \* State::selection: TimeCoord [row, idx]
    grid_state,    \* State::grid_state: [scroll_at]
    single_state,  \* State::single_state: [scroll_at]
    pc,            \* position of App::run: "running", "exited", "panicked"
    action,        \* the Action handed to the last dispatch (None before any)
    before,        \* the State fields as they were when that dispatch began
    probe,         \* the last direct call of Schedule::relative and its result
    new,           \* the call of State::new: its source, its first_event, its error
    grid,          \* the ScheduleGrid timeline built by the last View::draw (None before)
    built          \* the number of calls of ScheduleGrid::new so far

vars == <<schedule, mode, selection, grid_state, single_state, pc, action, before, probe,
          new, grid, built>>

----------------------------------------------------------------------------
(* Bounds of the model *)

\* timestamps of the import are Minute * (1..MaxTime)
MaxTime == 3
\* a timestamp has 0..MaxRowLen events starting at it, or COLUMNS + 1 of them
MaxRowLen == 1
\* event durations are 0..MaxDur minutes
MaxDur == 2
\* relative is probed with n in -MaxN..MaxN
MaxN == 2
\* Scroll(Down) is no longer dispatched once the single-mode offset is here
MaxScroll == 1
\* View::draw is no longer called once ScheduleGrid::new was called this often
MaxBuilds == 2

(* Program constants *)
COLUMNS == 7
U16_MAX == 65535

----------------------------------------------------------------------------
(* Generic helpers *)

None == <<>>
Some(x) == <<x>>

Abs(n) == IF n < 0 THEN -n ELSE n

\* isize::signum
signum(n) == IF n < 0 THEN -1 ELSE IF n > 0 THEN 1 ELSE 0

\* the elements of a finite set of integers in ascending order (BTreeMap key order)
SortedSeq(S) ==
    [i \in 1..Cardinality(S) |-> CHOOSE x \in S : Cardinality({y \in S : y < x}) = i - 1]

\* Iterator::rev
Rev(s) == [i \in 1..Len(s) |-> s[Len(s) + 1 - i]]

\* Iterator::nth: the element n positions after the next one
nth(s, n) == IF n + 1 <= Len(s) THEN Some(s[n + 1]) ELSE None

EmptyMap == [x \in {} |-> x]

\* HashMap::insert / BTreeMap::insert: overwrites an existing key
MapInsert(m, k, v) == [x \in DOMAIN m \cup {k} |-> IF x = k THEN v ELSE m[x]]

----------------------------------------------------------------------------
(* state/schedule/convert.rs: model::Schedule -> Schedule *)

\* time_to_duration, but the hours are counted as minutes and the seconds are lost
time_to_duration_hm(time) == time.hours * 60 + time.minutes

\* time_to_duration: a time of day as a span of seconds
time_to_duration(time) == time.hours * 60 * 60 + time.minutes * 60 + time.seconds

realize_person(model) == [id |-> model.guid, name |-> model.name]

realize_event(model) ==
    LET persons == [i \in 1..Len(model.persons) |-> realize_person(model.persons[i])]
        event == [id |-> model.guid,
                  start |-> model.date,
                  duration |-> time_to_duration(model.duration),
                  persons |-> [i \in 1..Len(persons) |-> persons[i].id]]
    IN  <<event, persons>>

\* InsertEvent, but the person mapping is replaced by the persons of the event
\* instead of extended with them
InsertEvent_replace_persons(s, model) ==
    LET r == realize_event(model)
        event == r[1]
        persons == r[2]
        tm == s.time_map
    IN  [events |-> MapInsert(s.events, event.id, event),
         persons |-> [p \in {persons[i].id : i \in 1..Len(persons)} |->
                        LET last == CHOOSE i \in 1..Len(persons) :
                                      /\ persons[i].id = p
                                      /\ \A j \in 1..Len(persons) : persons[j].id = p => j <= i
                        IN  persons[last]],
         time_map |-> IF event.start \in DOMAIN tm
                      THEN [tm EXCEPT ![event.start] = Append(@, event.id)]
                      ELSE MapInsert(tm, event.start, <<event.id>>)]

\* one iteration of the loop of From<model::Schedule>
InsertEvent(s, model) ==
    LET r == realize_event(model)
        event == r[1]
        persons == r[2]
        tm == s.time_map
    IN  [events |-> MapInsert(s.events, event.id, event),
         persons |-> [p \in DOMAIN s.persons \cup {persons[i].id : i \in 1..Len(persons)} |->
                        IF \E i \in 1..Len(persons) : persons[i].id = p
                        THEN LET last == CHOOSE i \in 1..Len(persons) :
                                           /\ persons[i].id = p
                                           /\ \A j \in 1..Len(persons) : persons[j].id = p => j <= i
                             IN  persons[last]
                        ELSE s.persons[p]],
         time_map |-> IF event.start \in DOMAIN tm
                      THEN [tm EXCEPT ![event.start] = Append(@, event.id)]
                      ELSE MapInsert(tm, event.start, <<event.id>>)]

RECURSIVE FromFold(_, _, _)
FromFold(s, events, i) ==
    IF i > Len(events) THEN s ELSE FromFold(InsertEvent(s, events[i]), events, i + 1)

\* From<model::Schedule> for Schedule; events is the flattened days / rooms / events
From(events) ==
    FromFold([events |-> EmptyMap, persons |-> EmptyMap, time_map |-> EmptyMap], events, 1)

----------------------------------------------------------------------------
(* state/schedule/mod.rs: Schedule *)

\* Event::end
end(event) == event.start + event.duration

\* Index<&EventId> for Schedule (defined only for ids of the schedule)
IndexEvent(s, id) == s.events[id]

\* BTreeMap::get_key_value
get_key_value(time_map, to) ==
    IF to \in DOMAIN time_map THEN Some(<<to, time_map[to]>>) ELSE None

\* first, but the last event of the earliest row is taken
first_last_of_row(s) ==
    IF DOMAIN s.time_map = {}
    THEN None
    ELSE LET key == SortedSeq(DOMAIN s.time_map)[1]
             line == s.time_map[key]
         IN  Some(IndexEvent(s, line[Len(line)]))

\* Schedule::first
first(s) ==
    IF DOMAIN s.time_map = {}
    THEN None
    ELSE LET key == SortedSeq(DOMAIN s.time_map)[1]
         IN  Some(IndexEvent(s, Head(s.time_map[key])))

\* relative, but a step past the last entry in its direction stops at that entry
relative_clamped(time_map, n, to) ==
    LET earlier == Rev(SortedSeq({k \in DOMAIN time_map : k < to}))
        later == SortedSeq({k \in DOMAIN time_map : k >= to})
        iter == IF signum(n) = -1 THEN earlier ELSE later
        hit == IF iter = <<>> THEN None
               ELSE IF Abs(n) + 1 <= Len(iter) THEN Some(iter[Abs(n) + 1])
               ELSE Some(iter[Len(iter)])
    IN  IF signum(n) = 0
        THEN get_key_value(time_map, to)
        ELSE IF hit = None THEN None ELSE Some(<<hit[1], time_map[hit[1]]>>)

\* relative, but n = 0 is served by the forward range like a positive n
relative_zero_forward(time_map, n, to) ==
    LET earlier == Rev(SortedSeq({k \in DOMAIN time_map : k < to}))
        later == SortedSeq({k \in DOMAIN time_map : k >= to})
        iter == IF signum(n) = -1 THEN earlier ELSE later
        hit == nth(iter, Abs(n))
    IN  IF hit = None THEN None ELSE Some(<<hit[1], time_map[hit[1]]>>)

\* Schedule::relative
relative(time_map, n, to) ==
    LET earlier == Rev(SortedSeq({k \in DOMAIN time_map : k < to}))
        later == SortedSeq({k \in DOMAIN time_map : k >= to})
        iter == IF signum(n) = -1 THEN earlier ELSE later
        hit == nth(iter, Abs(n))
    IN  IF signum(n) = 0
        THEN get_key_value(time_map, to)
        ELSE IF hit = None THEN None ELSE Some(<<hit[1], time_map[hit[1]]>>)

\* IndexCoord, but idx counts from the end of the row's list
IndexCoord_from_end(s, coord) ==
    IndexEvent(s, s.time_map[coord.row][Len(s.time_map[coord.row]) - coord.idx])

\* Index<&TimeCoord> for Schedule (defined only for a valid coordinate)
IndexCoord(s, coord) == IndexEvent(s, s.time_map[coord.row][coord.idx + 1])

----------------------------------------------------------------------------
(* ui/grid.rs: SlottedVec and ScheduleGrid *)

\* SlottedVec::default
SlottedVecDefault == [i \in 1..COLUMNS |-> None]

\* retain, but with the predicate end >= now: an event that ends now is kept
retain_late(data, now) ==
    [i \in 1..COLUMNS |-> IF data[i] # None /\ ~(data[i][1][2] >= now) THEN None ELSE data[i]]

\* retain, but no slot is ever cleared
retain_keep_all(data, now) == data

\* SlottedVec::retain with the predicate of ScheduleGrid::new: |(_, end)| end > now
retain(data, now) ==
    [i \in 1..COLUMNS |-> IF data[i] # None /\ ~(data[i][1][2] > now) THEN None ELSE data[i]]

RECURSIVE extendFrom(_, _, _)
extendFrom(data, i, iter) ==
    IF i > COLUMNS THEN data
    ELSE IF data[i] # None THEN extendFrom(data, i + 1, iter)
    ELSE IF iter = <<>> THEN data
    ELSE extendFrom([data EXCEPT ![i] = Some(Head(iter))], i + 1, Tail(iter))

\* extend, but the items are written from the first slot on, occupied or not
extend_overwrite(data, iter) ==
    [c \in 1..COLUMNS |-> IF c <= Len(iter) THEN Some(iter[c]) ELSE data[c]]

\* extend, but slots and items advance in lockstep: the item met at an occupied
\* slot is lost
extend_zip(data, iter) ==
    [c \in 1..COLUMNS |-> IF data[c] = None /\ c <= Len(iter) THEN Some(iter[c]) ELSE data[c]]

\* Extend for SlottedVec
extend(data, iter) == extendFrom(data, 1, iter)

\* GridFold, but the active events are kept in a growable list: a row has as
\* many slots as events are active, at least COLUMNS
RECURSIVE GridFold_unbounded(_, _, _, _, _)
GridFold_unbounded(base, keys, i, active_events, timeline) ==
    IF i > Len(keys) THEN timeline
    ELSE LET now == keys[i]
             just_starting == base.time_map[now]
             alive(slot) == slot # None /\ slot[1][2] > now
             culled == SelectSeq(active_events, alive)
             filled == culled \o
                       [j \in 1..Len(just_starting) |->
                           LET event == IndexEvent(base, just_starting[j])
                           IN  Some(<<event.id, end(event)>>)]
             width == IF Len(filled) > COLUMNS THEN Len(filled) ELSE COLUMNS
             row == [c \in 1..width |->
                        IF c > Len(filled) THEN None ELSE Some(filled[c][1][1])]
         IN  GridFold_unbounded(base, keys, i + 1, filled, MapInsert(timeline, now, row))

\* GridFold, but at every timestamp all events that have started and not ended
\* and hold no slot are offered to extend again, oldest first
RECURSIVE GridFold_retry(_, _, _, _, _)
GridFold_retry(base, keys, i, active_events, timeline) ==
    IF i > Len(keys) THEN timeline
    ELSE LET now == keys[i]
             culled == retain(active_events, now)
             held == {culled[c][1][1] : c \in {x \in 1..COLUMNS : culled[x] # None}}
             RECURSIVE waiting(_)
             waiting(k) ==
                 IF k > i THEN <<>>
                 ELSE SelectSeq(base.time_map[keys[k]],
                                LAMBDA id : /\ id \notin held
                                            /\ (k = i \/ end(IndexEvent(base, id)) > now))
                      \o waiting(k + 1)
             offered == waiting(1)
             filled == extend(culled,
                              [j \in 1..Len(offered) |->
                                  LET event == IndexEvent(base, offered[j])
                                  IN  <<event.id, end(event)>>])
             row == [c \in 1..COLUMNS |->
                        IF filled[c] = None THEN None ELSE Some(filled[c][1][1])]
         IN  GridFold_retry(base, keys, i + 1, filled, MapInsert(timeline, now, row))

RECURSIVE GridFold(_, _, _, _, _)
GridFold(base, keys, i, active_events, timeline) ==
    IF i > Len(keys) THEN timeline
    ELSE LET now == keys[i]
             just_starting == base.time_map[now]
             culled == retain(active_events, now)
             filled == extend(culled,
                              [j \in 1..Len(just_starting) |->
                                  LET event == IndexEvent(base, just_starting[j])
                                  IN  <<event.id, end(event)>>])
             row == [c \in 1..COLUMNS |->
                        IF filled[c] = None THEN None ELSE Some(filled[c][1][1])]
         IN  GridFold(base, keys, i + 1, filled, MapInsert(timeline, now, row))

\* ScheduleGrid::new: the timeline, timestamp -> COLUMNS slots of Option<EventId>
ScheduleGridNew(base) ==
    GridFold(base, SortedSeq(DOMAIN base.time_map), 1, SlottedVecDefault, EmptyMap)

----------------------------------------------------------------------------
(* state/store.rs: State, Mode, GridState, SingleState *)

\* the state a panic leaves behind: the fields as they were, the run over
Panic(s) == [s EXCEPT !.panicked = TRUE]

\* the body of State::scroll with its variation points as parameters:
\*   upper     the exclusive upper end of the in-line range is Len(current_line) + upper
\*   step      the horizontal step taken for amount
\*   strict    a missing target row panics instead of returning
\*   onLeft    TRUE: a row change to the left lands on the last index, FALSE: on 0
scrollWith(s, direction, amount, upper, step, strict, onLeft) ==
    LET time_map == s.schedule.time_map IN
    IF amount = 0 THEN s
    ELSE IF s.selection.row \notin DOMAIN time_map THEN Panic(s)
    ELSE LET current_line == time_map[s.selection.row] IN
         IF direction = "Horizontal"
         THEN LET new_idx == s.selection.idx + step
                  row_diff == signum(new_idx)
                  target == relative(time_map, row_diff, s.selection.row)
                  last == Len(target[1][2]) - 1
              IN  IF new_idx >= 0 /\ new_idx < Len(current_line) + upper
                  THEN [s EXCEPT !.selection.idx = new_idx]
                  ELSE IF target = None THEN (IF strict THEN Panic(s) ELSE s)
                  ELSE IF row_diff = 1
                       THEN [s EXCEPT !.selection =
                                [row |-> target[1][1], idx |-> IF onLeft THEN 0 ELSE last]]
                  ELSE IF row_diff = -1
                       THEN [s EXCEPT !.selection =
                                [row |-> target[1][1], idx |-> IF onLeft THEN last ELSE 0]]
                  ELSE Panic(s)
         ELSE Panic(s)

\* scroll, but the in-line check admits the index one past the end of the line
scroll_past_end(s, direction, amount) == scrollWith(s, direction, amount, 1, amount, FALSE, TRUE)

\* scroll, but the sign of amount is lost: both directions step to the right
scroll_unsigned(s, direction, amount) == scrollWith(s, direction, amount, 0, Abs(amount), FALSE, TRUE)

\* scroll, but the index after a row change is 0 going left and the last going right
scroll_swapped_reset(s, direction, amount) == scrollWith(s, direction, amount, 0, amount, FALSE, FALSE)

\* scroll, but a missing target row is unwrapped instead of ignored
scroll_unwrap_target(s, direction, amount) == scrollWith(s, direction, amount, 0, amount, TRUE, TRUE)

\* scroll, but a row change takes the row left out of the time map
scroll_remove_row(s, direction, amount) ==
    LET t == scrollWith(s, direction, amount, 0, amount, FALSE, TRUE) IN
    IF t.selection.row = s.selection.row THEN t
    ELSE [t EXCEPT !.schedule.time_map =
             [k \in DOMAIN @ \ {s.selection.row} |-> @[k]]]

\* scroll, but a row change keeps the index instead of resetting it
scroll_keep_idx(s, direction, amount) ==
    LET t == scrollWith(s, direction, amount, 0, amount, FALSE, TRUE) IN
    IF t.selection.row = s.selection.row THEN t
    ELSE [t EXCEPT !.selection.idx = s.selection.idx]

\* State::scroll
scroll(s, direction, amount) ==
    LET time_map == s.schedule.time_map IN
    IF amount = 0 THEN s
    ELSE IF s.selection.row \notin DOMAIN time_map THEN Panic(s)
    ELSE LET current_line == time_map[s.selection.row] IN
         IF direction = "Horizontal"
         THEN LET new_idx == s.selection.idx + amount
                  row_diff == signum(new_idx)
                  target == relative(time_map, row_diff, s.selection.row)
              IN  IF new_idx >= 0 /\ new_idx < Len(current_line)
                  THEN [s EXCEPT !.selection.idx = new_idx]
                  ELSE IF target = None THEN s
                  ELSE IF row_diff = 1
                       THEN [s EXCEPT !.selection = [row |-> target[1][1], idx |-> 0]]
                  ELSE IF row_diff = -1
                       THEN [s EXCEPT !.selection =
                                [row |-> target[1][1], idx |-> Len(target[1][2]) - 1]]
                  ELSE Panic(s)
         ELSE Panic(s)

\* Update for GridState
GridStateUpdate(g, a) == g

\* SingleStateUpdate, but with wrapping u16 arithmetic
SingleStateUpdate_wrapping(g, a) ==
    IF a.kind = "Scroll" /\ a.arg = "Down"
    THEN [g EXCEPT !.scroll_at = (@ + 1) % (U16_MAX + 1)]
    ELSE IF a.kind = "Scroll" /\ a.arg = "Up"
    THEN [g EXCEPT !.scroll_at = (@ + U16_MAX) % (U16_MAX + 1)]
    ELSE g

\* Update for SingleState (u16::saturating_add / saturating_sub)
SingleStateUpdate(g, a) ==
    IF a.kind = "Scroll" /\ a.arg = "Down"
    THEN [g EXCEPT !.scroll_at = IF @ = U16_MAX THEN U16_MAX ELSE @ + 1]
    ELSE IF a.kind = "Scroll" /\ a.arg = "Up"
    THEN [g EXCEPT !.scroll_at = IF @ = 0 THEN 0 ELSE @ - 1]
    ELSE g

\* update, but SwitchTo also rewinds the single-mode scroll
update_switch_resets(s, a) ==
    IF a.kind = "SwitchTo"
    THEN [s EXCEPT !.mode = a.arg, !.single_state = [scroll_at |-> 0]]
    ELSE IF a.kind = "Scroll"
    THEN IF s.mode = "Grid"
         THEN [s EXCEPT !.grid_state = GridStateUpdate(@, a)]
         ELSE [s EXCEPT !.single_state = SingleStateUpdate(@, a)]
    ELSE IF a.kind = "Select"
    THEN IF a.arg = "Left" THEN scroll(s, "Horizontal", -1)
         ELSE IF a.arg = "Right" THEN scroll(s, "Horizontal", 1)
         ELSE IF a.arg = "Up" THEN scroll(s, "Vertical", -1)
         ELSE scroll(s, "Vertical", 1)
    ELSE [s EXCEPT !.grid_state = GridStateUpdate(@, a),
                   !.single_state = SingleStateUpdate(@, a)]

\* update, but Scroll is forwarded to both mode-local states like the other actions
update_scroll_broadcast(s, a) ==
    IF a.kind = "SwitchTo"
    THEN [s EXCEPT !.mode = a.arg]
    ELSE IF a.kind = "Select"
    THEN IF a.arg = "Left" THEN scroll(s, "Horizontal", -1)
         ELSE IF a.arg = "Right" THEN scroll(s, "Horizontal", 1)
         ELSE IF a.arg = "Up" THEN scroll(s, "Vertical", -1)
         ELSE scroll(s, "Vertical", 1)
    ELSE [s EXCEPT !.grid_state = GridStateUpdate(@, a),
                   !.single_state = SingleStateUpdate(@, a)]

\* Update for State
update(s, a) ==
    IF a.kind = "Scroll"
    THEN IF s.mode = "Grid"
         THEN [s EXCEPT !.grid_state = GridStateUpdate(@, a)]
         ELSE [s EXCEPT !.single_state = SingleStateUpdate(@, a)]
    ELSE IF a.kind = "SwitchTo"
    THEN [s EXCEPT !.mode = a.arg]
    ELSE IF a.kind = "Select"
    THEN IF a.arg = "Left" THEN scroll(s, "Horizontal", -1)
         ELSE IF a.arg = "Right" THEN scroll(s, "Horizontal", 1)
         ELSE IF a.arg = "Up" THEN scroll(s, "Vertical", -1)
         ELSE scroll(s, "Vertical", 1)
    ELSE [s EXCEPT !.grid_state = GridStateUpdate(@, a),
                   !.single_state = SingleStateUpdate(@, a)]

\* StateNew, but the selection and the scroll start at the first imported event
StateNew_first_imported(import) ==
    LET s == From(import)
        first_event == IF import = <<>> THEN None ELSE Some(IndexEvent(s, import[1].guid))
    IN  IF first_event = None
        THEN [ok |-> FALSE, error |-> "schedule is empty, nothing to display"]
        ELSE [ok |-> TRUE,
              state |-> [schedule |-> s,
                         mode |-> "Grid",
                         selection |-> [row |-> first_event[1].start, idx |-> 0],
                         grid_state |-> [scroll_at |-> first_event[1].start],
                         single_state |-> [scroll_at |-> 0],
                         panicked |-> FALSE]]

\* StateNew, but the first event is unwrapped: an empty schedule panics and no
\* error value is returned
StateNew_unwrap(import) ==
    LET s == From(import)
        first_event == first(s)
    IN  IF first_event = None
        THEN [ok |-> FALSE]
        ELSE [ok |-> TRUE,
              state |-> [schedule |-> s,
                         mode |-> "Grid",
                         selection |-> [row |-> first_event[1].start, idx |-> 0],
                         grid_state |-> [scroll_at |-> first_event[1].start],
                         single_state |-> [scroll_at |-> 0],
                         panicked |-> FALSE]]

\* State::new on the decoded import
StateNew(import) ==
    LET s == From(import)
        first_event == first(s)
    IN  IF first_event = None
        THEN [ok |-> FALSE, error |-> "schedule is empty, nothing to display"]
        ELSE [ok |-> TRUE,
              state |-> [schedule |-> s,
                         mode |-> "Grid",
                         selection |-> [row |-> first_event[1].start, idx |-> 0],
                         grid_state |-> [scroll_at |-> first_event[1].start],
                         single_state |-> [scroll_at |-> 0],
                         panicked |-> FALSE]]

\* Schedule::from_xml_file: source.ok tells whether the file opens and parses,
\* source.events is what it parses to
from_xml_file(source) ==
    IF source.ok
    THEN [ok |-> TRUE, schedule |-> From(source.events)]
    ELSE [ok |-> FALSE, error |-> "could not parse schedule into model"]

\* State::new from the schedule file
StateNewFromFile(source) ==
    IF from_xml_file(source).ok
    THEN StateNew(source.events)
    ELSE [ok |-> FALSE, error |-> "schedule construction failure"]

----------------------------------------------------------------------------
(* The imports the model starts from *)

RowSizes == (0..MaxRowLen) \cup {COLUMNS + 1}

\* the import with c[t] events at minute t, one per room, listed room by room
\* as the days / rooms / events of the source are
Import(c) ==
    LET cells == {x \in (1..(COLUMNS + 1 + MaxRowLen)) \X (1..MaxTime) : x[1] <= c[x[2]]}
        less(x, y) == x[1] < y[1] \/ (x[1] = y[1] /\ x[2] < y[2])
        at(i) == CHOOSE x \in cells : Cardinality({y \in cells : less(y, x)}) = i - 1
    IN  [i \in 1..Cardinality(cells) |->
            [guid |-> i,
             date |-> at(i)[2] * 60,
             duration |-> [hours |-> 0,
                           minutes |-> (at(i)[1] + at(i)[2]) % (MaxDur + 1),
                           seconds |-> 0],
             persons |-> <<[guid |-> 1 + (at(i)[1] % 2), name |-> at(i)[1] % 2]>>]]

Imports == {Import(c) : c \in [1..MaxTime -> RowSizes]}

----------------------------------------------------------------------------
(* The run: App::run dispatching one Action per iteration *)

Exit == [kind |-> "Exit", arg |-> ""]
Select(to) == [kind |-> "Select", arg |-> to]
SwitchTo(m) == [kind |-> "SwitchTo", arg |-> m]
Scroll(d) == [kind |-> "Scroll", arg |-> d]

To == {"Left", "Right", "Up", "Below"}
Mode == {"Grid", "Single"}
VerticalDirection == {"Down", "Up"}

\* the State as one record
Current ==
    [schedule |-> schedule, mode |-> mode, selection |-> selection,
     grid_state |-> grid_state, single_state |-> single_state, panicked |-> FALSE]

NoProbe == [called |-> FALSE, n |-> 0, to |-> 0, result |-> None]

NoNew == [called |-> FALSE, source |-> None, first_event |-> None, error |-> ""]

Init ==
    \E import \in Imports :
        LET r == StateNew(import) IN
        /\ r.ok
        /\ schedule = r.state.schedule
        /\ mode = r.state.mode
        /\ selection = r.state.selection
        /\ grid_state = r.state.grid_state
        /\ single_state = r.state.single_state
        /\ pc = "running"
        /\ action = None
        /\ before = r.state
        /\ probe = NoProbe
        /\ new = NoNew
        /\ grid = None
        /\ built = 0

\* one iteration of the loop of App::run with Some(action): Dispatcher::dispatch,
\* then the break on Exit
Dispatch(a) ==
    /\ pc = "running"
    /\ LET s == update(Current, a) IN
        /\ schedule' = s.schedule
        /\ mode' = s.mode
        /\ selection' = s.selection
        /\ grid_state' = s.grid_state
        /\ single_state' = s.single_state
        /\ pc' = IF s.panicked THEN "panicked"
                 ELSE IF a.kind = "Exit" THEN "exited" ELSE "running"
    /\ action' = Some(a)
    /\ before' = Current
    /\ UNCHANGED <<probe, new, grid, built>>

DispatchExit == Dispatch(Exit)

DispatchSelect == \E to \in To : Dispatch(Select(to))

DispatchSwitchTo == \E m \in Mode : Dispatch(SwitchTo(m))

DispatchScroll ==
    \E d \in VerticalDirection :
        /\ (d = "Down" /\ mode = "Single") => single_state.scroll_at < MaxScroll
        /\ Dispatch(Scroll(d))

Next == DispatchExit \/ DispatchSelect \/ DispatchSwitchTo \/ DispatchScroll

Spec == Init /\ [][Next]_vars

----------------------------------------------------------------------------
(* Schedule::relative called directly on the constructed schedule *)

ProbeTimes == {60 * k : k \in 0..(MaxTime + 1)}

CallRelative ==
    \E n \in (-MaxN)..MaxN, to \in ProbeTimes :
        /\ probe' = [called |-> TRUE, n |-> n, to |-> to,
                     result |-> relative(schedule.time_map, n, to)]
        /\ UNCHANGED <<schedule, mode, selection, grid_state, single_state, pc, action, before,
                       new, grid, built>>

NextRelative == CallRelative

SpecRelative == Init /\ [][NextRelative]_vars

----------------------------------------------------------------------------
(* Vocabulary of the properties, stated on the time map without the code's *)
(* iterators                                                               *)

Keys == DOMAIN schedule.time_map

Earliest == CHOOSE k \in Keys : \A j \in Keys : k <= j
Latest == CHOOSE k \in Keys : \A j \in Keys : j <= k

\* the signed number of time-map entries from key T to key k
StepsAway(T, k) ==
    IF k >= T
    THEN Cardinality({j \in Keys : T < j /\ j <= k})
    ELSE 0 - Cardinality({j \in Keys : k <= j /\ j < T})

\* the keys lying exactly n entries away from T: one key or none
EntryAway(T, n) == {k \in Keys : StepsAway(T, k) = n}

Entry(k) == Some(<<k, schedule.time_map[k]>>)

Line(row) == schedule.time_map[row]

Dispatched(a) == action = Some(a)

\* the last dispatch was Select(to), begun on column idx of a row
SelectedFrom(to) == Dispatched(Select(to)) /\ before.selection.row \in Keys

\* the last dispatch was a horizontal Select that changed the row
RowChangedBy(to) == SelectedFrom(to) /\ selection.row # before.selection.row

----------------------------------------------------------------------------
(* Schedule::relative, under SpecRelative *)

\* C1: for a time-map key T and n # 0, relative(n, T) is the entry exactly |n|
\* entries after (n > 0) or before (n < 0) T, whenever that entry exists.
C1_RelativeSteps ==
    (probe.called /\ probe.n # 0 /\ probe.to \in Keys) =>
        \A k \in EntryAway(probe.to, probe.n) : probe.result = Entry(k)

\* C2: for a time-map key T and n # 0, relative(n, T) is not-found whenever no
\* entry lies |n| entries from T in the direction of n.
C2_RelativeNotFound ==
    (probe.called /\ probe.n # 0 /\ probe.to \in Keys /\ EntryAway(probe.to, probe.n) = {}) =>
        probe.result = None

\* relative(-1, earliest key) was called on a time map of several keys
C2_Witness ==
    /\ probe.called /\ probe.n = -1 /\ probe.to \in Keys
    /\ probe.to = Earliest /\ Cardinality(Keys) >= 2
    /\ probe.result = None

\* C3: relative(0, T) is the entry of T (its key and its event-id list) when T
\* is a key of the time map, and not-found when it is not.
C3_RelativeZero ==
    (probe.called /\ probe.n = 0) =>
        IF probe.to \in Keys THEN probe.result = Entry(probe.to) ELSE probe.result = None

\* relative(0, T) was called with T between two keys and missed
C3_Witness ==
    /\ probe.called /\ probe.n = 0 /\ probe.to \notin Keys
    /\ Earliest < probe.to /\ probe.to < Latest
    /\ probe.result = None

----------------------------------------------------------------------------
(* Select, under Spec *)

\* C4 as stated: in every state the selection's row is a key of the time map and
\* of the Grid and its column is a Grid column, an index below COLUMNS.
C4_GridColumn ==
    /\ selection.row \in Keys
    /\ selection.row \in DOMAIN ScheduleGridNew(schedule)
    /\ selection.idx + 1 \in DOMAIN ScheduleGridNew(schedule)[selection.row]

\* C4 amended: in every state the selection's row is a key of the time map and of
\* the Grid and its index is below the number of events starting at that row
\* (which exceeds COLUMNS when more than COLUMNS events start together).
C4_SelectionValid ==
    /\ selection.row \in Keys
    /\ selection.row \in DOMAIN ScheduleGridNew(schedule)
    /\ selection.idx >= 0
    /\ selection.idx < Len(Line(selection.row))

\* a Select moved the selection onto the event after the COLUMNS-th of its row
C4_Witness ==
    /\ Dispatched(Select("Right"))
    /\ before.selection.idx = COLUMNS - 1
    /\ selection.idx = COLUMNS
    /\ selection.row \in Keys

\* C5: a Select(Left) / Select(Right) whose index -1 / +1 is still inside the
\* current row changes the index by exactly that and keeps the row.
C5_WithinRow ==
    \A to \in {"Left", "Right"} :
        LET new_idx == before.selection.idx + (IF to = "Left" THEN -1 ELSE 1) IN
        (SelectedFrom(to) /\ new_idx >= 0 /\ new_idx < Len(Line(before.selection.row))) =>
            /\ selection = [row |-> before.selection.row, idx |-> new_idx]
            /\ pc = "running"

\* a Select(Left) moved the index down by one inside its row
C5_Witness ==
    /\ SelectedFrom("Left")
    /\ before.selection.idx > 0
    /\ selection.idx = before.selection.idx - 1
    /\ selection.row = before.selection.row

\* C6: Select(Left) at the first column of a row that is not the earliest moves
\* to the immediately preceding key, Select(Right) at the last column of a row
\* that is not the latest to the immediately following key.
C6_RowStep ==
    /\ (SelectedFrom("Left") /\ before.selection.idx = 0
            /\ before.selection.row # Earliest) =>
        selection.row \in EntryAway(before.selection.row, -1)
    /\ (SelectedFrom("Right") /\ before.selection.idx = Len(Line(before.selection.row)) - 1
            /\ before.selection.row # Latest) =>
        selection.row \in EntryAway(before.selection.row, 1)

\* C7 as stated: after a row change by a horizontal Select the index is the
\* first of the new row for Select(Left) and the last for Select(Right).
C7_ResetFirstOnLeft ==
    /\ RowChangedBy("Left") => selection.idx = 0
    /\ RowChangedBy("Right") => selection.idx = Len(Line(selection.row)) - 1

\* C7 amended: after a row change by a horizontal Select the index is the last
\* of the new row for Select(Left) and the first (0) for Select(Right).
C7_ResetLastOnLeft ==
    /\ RowChangedBy("Left") => selection.idx = Len(Line(selection.row)) - 1
    /\ RowChangedBy("Right") => selection.idx = 0

\* a Select(Left) changed the row and landed on the last of several events
C7_Witness ==
    /\ RowChangedBy("Left")
    /\ Len(Line(selection.row)) >= 2
    /\ selection.idx = Len(Line(selection.row)) - 1

\* C8: Select(Left) at the first column of the earliest row and Select(Right) at
\* the last column of the latest row leave the selection as it was, and the
\* dispatch completes.
C8_Exhaustion ==
    /\ (SelectedFrom("Left") /\ before.selection.idx = 0
            /\ before.selection.row = Earliest) =>
        (selection = before.selection /\ pc = "running")
    /\ (SelectedFrom("Right") /\ before.selection.idx = Len(Line(before.selection.row)) - 1
            /\ before.selection.row = Latest) =>
        (selection = before.selection /\ pc = "running")

\* a Select(Right) was dispatched at the last column of the latest of several rows
C8_Witness ==
    /\ SelectedFrom("Right")
    /\ Cardinality(Keys) >= 2
    /\ before.selection.row = Latest
    /\ before.selection.idx = Len(Line(Latest)) - 1
    /\ selection = before.selection

\* C9: Select(Up) / Select(Below) moves the row to the previous / next time-map
\* entry and keeps the index; without such a row the selection is unchanged; the
\* dispatch always completes.
C9_Vertical ==
    \A to \in {"Up", "Below"} :
        LET target == EntryAway(before.selection.row, IF to = "Up" THEN -1 ELSE 1) IN
        SelectedFrom(to) =>
            /\ pc = "running"
            /\ selection.idx = before.selection.idx
            /\ IF target = {} THEN selection.row = before.selection.row
                              ELSE selection.row \in target

----------------------------------------------------------------------------
(* SwitchTo, under Spec *)

\* C10: SwitchTo(m) sets the mode to m from either mode and leaves the
\* selection, both scroll states and the schedule as they were.
C10_SwitchTo ==
    \A m \in Mode :
        Dispatched(SwitchTo(m)) =>
            /\ mode = m
            /\ selection = before.selection
            /\ grid_state = before.grid_state
            /\ single_state = before.single_state
            /\ schedule = before.schedule
            /\ pc = "running"

\* SwitchTo(Single) was dispatched in Single mode with a scrolled page and a
\* moved selection
C10_Witness ==
    /\ Dispatched(SwitchTo("Single"))
    /\ before.mode = "Single"
    /\ mode = "Single"
    /\ single_state.scroll_at > 0
    /\ selection.idx > 0

----------------------------------------------------------------------------
(* Scroll, under Spec *)

\* C11: Scroll(d) changes only the scroll state of the active mode: in Grid mode
\* the single-mode offset is unchanged, in Single mode the grid-mode position is
\* unchanged, and the mode and the selection are unchanged in both.
C11_ScrollActiveModeOnly ==
    \A d \in VerticalDirection :
        Dispatched(Scroll(d)) =>
            /\ mode = before.mode
            /\ selection = before.selection
            /\ before.mode = "Grid" => single_state = before.single_state
            /\ before.mode = "Single" => grid_state = before.grid_state

\* Scroll(Up) was dispatched in Grid mode while the single-mode page was scrolled
C11_Witness ==
    /\ Dispatched(Scroll("Up"))
    /\ before.mode = "Grid"
    /\ before.single_state.scroll_at > 0
    /\ single_state.scroll_at > 0

----------------------------------------------------------------------------
(* Scroll in Single mode at both ends of the u16 range *)

\* the offsets the run is started at: the MaxScroll lowest and highest of u16
ScrollOffsets == (0..MaxScroll) \cup ((U16_MAX - MaxScroll)..U16_MAX)

\* the states after SwitchTo(Single) and k times Scroll(Down), k in ScrollOffsets
InitScroll ==
    \E import \in Imports, k \in ScrollOffsets :
        LET r == StateNew(import)
            s == [r.state EXCEPT !.mode = "Single", !.single_state = [scroll_at |-> k]]
        IN
        /\ r.ok
        /\ schedule = s.schedule
        /\ mode = s.mode
        /\ selection = s.selection
        /\ grid_state = s.grid_state
        /\ single_state = s.single_state
        /\ pc = "running"
        /\ action = None
        /\ before = s
        /\ probe = NoProbe
        /\ new = NoNew
        /\ grid = None
        /\ built = 0

\* Scroll dispatched while the offset stays among ScrollOffsets
DispatchScrollSingle ==
    \E d \in VerticalDirection :
        /\ d = "Down" =>
            (single_state.scroll_at < MaxScroll \/ single_state.scroll_at >= U16_MAX - MaxScroll)
        /\ d = "Up" =>
            (single_state.scroll_at <= MaxScroll \/ single_state.scroll_at > U16_MAX - MaxScroll)
        /\ Dispatch(Scroll(d))

NextScroll == DispatchScrollSingle

SpecScroll == InitScroll /\ [][NextScroll]_vars

\* C12: in Single mode Scroll(Up) at offset 0 leaves 0 and at k > 0 yields k - 1,
\* Scroll(Down) at k < 65535 yields k + 1 and at 65535 leaves 65535; the offset
\* always lies in 0..65535.
C12_Saturating ==
    /\ single_state.scroll_at \in 0..U16_MAX
    /\ LET k == before.single_state.scroll_at IN
        /\ (Dispatched(Scroll("Up")) /\ before.mode = "Single") =>
            single_state.scroll_at = (IF k = 0 THEN 0 ELSE k - 1)
        /\ (Dispatched(Scroll("Down")) /\ before.mode = "Single") =>
            single_state.scroll_at = (IF k < U16_MAX THEN k + 1 ELSE U16_MAX)

\* Scroll(Down) was dispatched in Single mode at offset 65535
C12_Witness ==
    /\ Dispatched(Scroll("Down"))
    /\ before.mode = "Single"
    /\ before.single_state.scroll_at = U16_MAX
    /\ single_state.scroll_at = U16_MAX

----------------------------------------------------------------------------
(* Select and SwitchTo in either order, under Spec *)

\* the State after one more dispatch on a run that reached s: a panicked run
\* dispatches nothing more
Then(s, a) == IF s.panicked THEN s ELSE update(s, a)

\* C13: a dispatched Select(d) completes and, for every mode m, SwitchTo(m)
\* after it yields the State that Select(d) after SwitchTo(m) yields from the
\* same start; a dispatched SwitchTo does not change the selected event.
C13_SelectionShared ==
    /\ \A m \in Mode :
        Dispatched(SwitchTo(m)) =>
            IndexCoord(schedule, selection) = IndexCoord(before.schedule, before.selection)
    /\ \A d \in To :
        Dispatched(Select(d)) =>
            \A m \in Mode :
                LET here == [Current EXCEPT !.panicked = (pc = "panicked")]
                    x == Then(Then(before, SwitchTo(m)), Select(d))
                    y == Then(here, SwitchTo(m))
                IN  ~x.panicked /\ ~y.panicked /\ x = y

----------------------------------------------------------------------------
(* Construction: State::new called on a schedule file *)

\* the imports have at most MaxEvents events
MaxEvents == 3

\* an imported event: its start minute and its duration in minutes
EventShapes == (1..MaxTime) \X {0, MaxDur}

\* every list of at most MaxEvents events, guid = position in the import
NewImports ==
    {[i \in DOMAIN f |->
         [guid |-> i,
          date |-> f[i][1] * 60,
          duration |-> [hours |-> 0, minutes |-> f[i][2], seconds |-> 0],
          persons |-> <<[guid |-> 1 + (i % 2), name |-> i % 2]>>]] :
     f \in UNION {[1..n -> EventShapes] : n \in 0..MaxEvents}}

Sources ==
    {[ok |-> FALSE, events |-> <<>>]} \cup {[ok |-> TRUE, events |-> e] : e \in NewImports}

\* before State::new: there is no State yet
InitNew ==
    /\ schedule = From(<<>>)
    /\ mode = ""
    /\ selection = None
    /\ grid_state = None
    /\ single_state = None
    /\ pc = "new"
    /\ action = None
    /\ before = None
    /\ probe = NoProbe
    /\ new = NoNew
    /\ grid = None
    /\ built = 0

\* Store::new / State::new on one schedule file
Construct ==
    /\ pc = "new"
    /\ \E source \in Sources :
        LET r == StateNewFromFile(source) IN
        /\ new' = [called |-> TRUE,
                   source |-> source,
                   first_event |-> IF source.ok THEN first(From(source.events)) ELSE None,
                   error |-> IF ~r.ok /\ "error" \in DOMAIN r THEN r.error ELSE ""]
        /\ IF r.ok
           THEN /\ schedule' = r.state.schedule
                /\ mode' = r.state.mode
                /\ selection' = r.state.selection
                /\ grid_state' = r.state.grid_state
                /\ single_state' = r.state.single_state
                /\ before' = r.state
                /\ pc' = "running"
           ELSE /\ UNCHANGED <<schedule, mode, selection, grid_state, single_state, before>>
                /\ pc' = IF "error" \in DOMAIN r THEN "failed" ELSE "panicked"
    /\ UNCHANGED <<action, probe, grid, built>>

NextNew == Construct

SpecNew == InitNew /\ [][NextNew]_vars


\* the events State::new was handed
Imported == new.source.events

\* the earliest start among the imported events
MinStart == CHOOSE t \in {Imported[i].date : i \in DOMAIN Imported} :
                \A i \in DOMAIN Imported : t <= Imported[i].date

\* the position in the import of the first event starting at MinStart
FirstOfMinStart == CHOOSE i \in DOMAIN Imported :
                       /\ Imported[i].date = MinStart
                       /\ \A j \in DOMAIN Imported : Imported[j].date = MinStart => i <= j

Constructed == new.called /\ new.source.ok /\ Imported # <<>>

\* C14: for a non-empty schedule State::new yields mode Grid, the selection at
\* (start of the earliest event, 0), the grid-mode scroll at that start, the
\* single-mode offset 0, and the selected event is the one first() returns.
C14_InitialState ==
    Constructed =>
        /\ pc = "running"
        /\ mode = "Grid"
        /\ selection = [row |-> MinStart, idx |-> 0]
        /\ grid_state = [scroll_at |-> MinStart]
        /\ single_state = [scroll_at |-> 0]
        /\ Some(IndexCoord(schedule, selection)) = new.first_event

\* a State was built from an import whose first event is not the earliest
C14_Witness ==
    /\ Constructed
    /\ pc = "running"
    /\ Imported[1].date > MinStart
    /\ selection.row = MinStart

\* C15: a source that cannot be decoded, or decodes to zero events, yields a
\* described error value, not a panic, and no State; a State exists only for
\* sources with at least one event.
C15_ConstructionFailure ==
    /\ (new.called /\ (~new.source.ok \/ Imported = <<>>)) =>
        /\ pc = "failed"
        /\ new.error # ""
        /\ selection = None /\ mode = ""
    /\ pc = "running" => (new.source.ok /\ Len(Imported) >= 1)

\* State::new was called on a source that decodes to zero events and failed
C15_Witness ==
    /\ new.called
    /\ new.source.ok
    /\ Imported = <<>>
    /\ pc = "failed"
    /\ new.error = "schedule is empty, nothing to display"

\* C16: first() on a non-empty import is the event with the minimum start, the
\* first imported one among those sharing it; on an empty schedule it is None.
C16_First ==
    (new.called /\ new.source.ok) =>
        IF Imported = <<>>
        THEN new.first_event = None
        ELSE /\ new.first_event # None
             /\ new.first_event[1].id = Imported[FirstOfMinStart].guid
             /\ new.first_event[1].start = MinStart

\* first() was called where several events share the minimum start and the
\* first imported event starts later
C16_Witness ==
    /\ Constructed
    /\ Imported[1].date > MinStart
    /\ Cardinality({i \in DOMAIN Imported : Imported[i].date = MinStart}) >= 2
    /\ new.first_event[1].id = Imported[FirstOfMinStart].guid

----------------------------------------------------------------------------
(* The grid: View::draw of the grid mode building the ScheduleGrid *)

\* Import(c) with the duration of every event advanced by o minutes, modulo
\* MaxDur + 1
GridImport(c, o) ==
    LET import == Import(c) IN
    [i \in DOMAIN import |->
        [import[i] EXCEPT !.duration.minutes = (@ + o) % (MaxDur + 1)]]

\* the rows of the grid imports may also be one short of filling the Grid
GridRowSizes == RowSizes \cup {COLUMNS - 1}

GridImports == {GridImport(c, o) : c \in [1..MaxTime -> GridRowSizes], o \in 0..MaxDur}

\* the states after State::new on the grid imports
InitGrid ==
    \E import \in GridImports :
        LET r == StateNew(import) IN
        /\ r.ok
        /\ schedule = r.state.schedule
        /\ mode = r.state.mode
        /\ selection = r.state.selection
        /\ grid_state = r.state.grid_state
        /\ single_state = r.state.single_state
        /\ pc = "running"
        /\ action = None
        /\ before = r.state
        /\ probe = NoProbe
        /\ new = NoNew
        /\ grid = None
        /\ built = 0

\* View::draw of the grid mode: the ScheduleGrid is built from the schedule
Draw ==
    /\ pc = "running"
    /\ mode = "Grid"
    /\ built < MaxBuilds
    /\ grid' = Some(ScheduleGridNew(schedule))
    /\ built' = built + 1
    /\ UNCHANGED <<schedule, mode, selection, grid_state, single_state, pc, action, before,
                   probe, new>>

NextGrid == Draw

SpecGrid == InitGrid /\ [][NextGrid]_vars

----------------------------------------------------------------------------
(* Properties of the ScheduleGrid *)

Drawn == grid # None

\* the timeline of the Grid drawn last
Timeline == grid[1]

Events == DOMAIN schedule.events

Start(id) == schedule.events[id].start

End(id) == schedule.events[id].start + schedule.events[id].duration

\* the events that have started and not ended at T
Overlapping(T) == {id \in Events : Start(id) <= T /\ T < End(id)}

\* the events a row reports and the columns it reports them in
Reported(row) == {row[c][1] : c \in {x \in DOMAIN row : row[x] # None}}

ColumnsOf(row, id) == {c \in DOMAIN row : row[c] = Some(id)}

\* C17: every timestamp of the schedule has a row of exactly COLUMNS slots, so a
\* row reports at most COLUMNS events, however many overlap at its timestamp
C17_Capacity ==
    Drawn =>
        /\ DOMAIN Timeline = Keys
        /\ \A T \in Keys :
            /\ DOMAIN Timeline[T] = 1..COLUMNS
            /\ Cardinality(Reported(Timeline[T])) <= COLUMNS

\* more than COLUMNS events overlap at a timestamp whose row is full
C17_Witness ==
    /\ Drawn
    /\ \E T \in Keys :
        /\ Cardinality(Overlapping(T)) > COLUMNS
        /\ Cardinality(Reported(Timeline[T])) = COLUMNS

\* C18: an event in column c of the row of T is in column c, and in no other
\* column, of the row of every later timestamp before its end
C18_ColumnStability ==
    Drawn =>
        \A T \in Keys : \A c \in 1..COLUMNS : Timeline[T][c] # None =>
            LET id == Timeline[T][c][1] IN
            \A later \in Keys : (T < later /\ later < End(id)) =>
                ColumnsOf(Timeline[later], id) = {c}

\* an event holds a column other than the first through a later timestamp at
\* which other events start
C18_Witness ==
    /\ Drawn
    /\ \E T \in Keys : \E c \in 2..COLUMNS : Timeline[T][c] # None /\
        LET id == Timeline[T][c][1] IN
        \E later \in Keys :
            /\ T < later /\ later < End(id)
            /\ Line(later) # <<>>
            /\ Timeline[later][c] = Some(id)

\* the timestamp before T in the time map, if any
Previous(T) == {k \in Keys : StepsAway(T, k) = -1}

\* the columns of the row of T held by events of the previous row that have not
\* ended at T
Occupied(T) ==
    {c \in 1..COLUMNS : \E P \in Previous(T) :
        Timeline[P][c] # None /\ End(Timeline[P][c][1]) > T}

Free(T) == SortedSeq((1..COLUMNS) \ Occupied(T))

\* C19: in the row of T the occupied columns keep their event; the i-th event
\* starting at T is in the i-th lowest free column and nowhere else, the events
\* beyond the number of free columns are absent, the free columns left over are
\* empty
C19_FirstFit ==
    Drawn =>
        \A T \in Keys :
            LET row == Timeline[T]
                free == Free(T)
                starting == Line(T)
            IN  /\ \A c \in Occupied(T) : \A P \in Previous(T) : row[c] = Timeline[P][c]
                /\ \A i \in 1..Len(starting) :
                    ColumnsOf(row, starting[i]) = IF i <= Len(free) THEN {free[i]} ELSE {}
                /\ \A i \in 1..Len(free) : i > Len(starting) => row[free[i]] = None

\* a row with an occupied column below a free one and more events starting than
\* columns free
C19_Witness ==
    /\ Drawn
    /\ \E T \in Keys :
        /\ Len(Free(T)) > 0
        /\ Len(Line(T)) > Len(Free(T))
        /\ \E c \in Occupied(T) : c < Free(T)[Len(Free(T))]
        /\ Timeline[T][Free(T)[Len(Free(T))]] = Some(Line(T)[Len(Free(T))])

\* the event is in the row of its own start
Placed(id) == ColumnsOf(Timeline[Start(id)], id) # {}

\* C20: an event that is not in the row of its own start is in no row
C20_StaysDropped ==
    Drawn =>
        \A id \in Events : ~Placed(id) =>
            \A T \in Keys : ColumnsOf(Timeline[T], id) = {}

\* an event was dropped, and a later row before its end has an empty column
C20_Witness ==
    /\ Drawn
    /\ \E id \in Events :
        /\ ~Placed(id)
        /\ \E T \in Keys :
            /\ Start(id) < T /\ T < End(id)
            /\ \E c \in 1..COLUMNS : Timeline[T][c] = None
            /\ ColumnsOf(Timeline[T], id) = {}

----------------------------------------------------------------------------
(* The conversion and the lookups by id, called directly *)

\* HashMap::get, but a missing key yields the entry of some other key
get_any(map, key) ==
    IF key \in DOMAIN map THEN Some(map[key])
    ELSE IF DOMAIN map = {} THEN None
    ELSE Some(map[CHOOSE k \in DOMAIN map : TRUE])

\* HashMap::get
get(map, key) == IF key \in DOMAIN map THEN Some(map[key]) ELSE None

\* Option::expect: a panic on None
expect(option) ==
    IF option = None THEN [panicked |-> TRUE, value |-> None]
    ELSE [panicked |-> FALSE, value |-> option]

\* Index<&EventId> for Schedule, for any id
index_EventId(s, id) == expect(get(s.events, id))

\* Index<&PersonId> for Schedule, for any id
index_PersonId(s, id) == expect(get(s.persons, id))

\* the imports have at most MaxImport events
MaxImport == 2

\* the imported events: guids may repeat, dates and durations are free, the
\* persons of two events may share a guid
ImportedEvents ==
    {[guid |-> g, date |-> d, duration |-> t, persons |-> ps] :
        g \in {1, 2},
        d \in {60, 120},
        t \in {[hours |-> 0, minutes |-> 0, seconds |-> 0],
               [hours |-> 0, minutes |-> 1, seconds |-> 30],
               [hours |-> 1, minutes |-> 0, seconds |-> 1]},
        ps \in {<<[guid |-> 1, name |-> "a"]>>,
                 <<[guid |-> 1, name |-> "b"], [guid |-> 2, name |-> "a"]>>}}

ConvertImports == UNION {[1..n -> ImportedEvents] : n \in 0..MaxImport}

\* the ids looked up: those of the imports and one more of either kind
LookupIds == 1..4

InitConvert ==
    /\ schedule = From(<<>>)
    /\ mode = ""
    /\ selection = None
    /\ grid_state = None
    /\ single_state = None
    /\ pc = "convert"
    /\ action = None
    /\ before = None
    /\ probe = NoProbe
    /\ new = NoNew
    /\ grid = None
    /\ built = 0

\* Schedule::from(model) on one import
Convert ==
    /\ pc = "convert"
    /\ \E import \in ConvertImports :
        /\ schedule' = From(import)
        /\ new' = [NoNew EXCEPT !.called = TRUE, !.source = [ok |-> TRUE, events |-> import]]
    /\ pc' = "converted"
    /\ UNCHANGED <<mode, selection, grid_state, single_state, action, before, probe, grid, built>>

\* schedule[&EventId]
LookupEvent ==
    /\ pc = "converted"
    /\ \E id \in LookupIds :
        probe' = [called |-> TRUE, kind |-> "EventId", id |-> id,
                  result |-> index_EventId(schedule, id)]
    /\ UNCHANGED <<schedule, mode, selection, grid_state, single_state, pc, action, before,
                   new, grid, built>>

\* schedule[&PersonId]
LookupPerson ==
    /\ pc = "converted"
    /\ \E id \in LookupIds :
        probe' = [called |-> TRUE, kind |-> "PersonId", id |-> id,
                  result |-> index_PersonId(schedule, id)]
    /\ UNCHANGED <<schedule, mode, selection, grid_state, single_state, pc, action, before,
                   new, grid, built>>

NextConvert == Convert \/ LookupEvent \/ LookupPerson

SpecConvert == InitConvert /\ [][NextConvert]_vars

----------------------------------------------------------------------------
(* Properties of the converted Schedule *)

Converted == pc = "converted"

\* the import the Schedule was converted from
Source == new.source.events

\* how often the id is listed under the key
Listed(key, id) ==
    Cardinality({i \in DOMAIN schedule.time_map[key] : schedule.time_map[key][i] = id})

\* the last imported record of the guid
LastImported(guid) ==
    Source[CHOOSE i \in DOMAIN Source :
              /\ Source[i].guid = guid
              /\ \A j \in DOMAIN Source : Source[j].guid = guid => j <= i]

\* C21: every id listed in the time map is a key of the event mapping and every
\* person id of a stored event is a key of the person mapping, so resolving
\* them does not panic
C21_ReferentialIntegrity ==
    Converted =>
        /\ \A key \in Keys : \A i \in DOMAIN Line(key) :
            /\ Line(key)[i] \in Events
            /\ ~index_EventId(schedule, Line(key)[i]).panicked
        /\ \A id \in Events : \A i \in DOMAIN schedule.events[id].persons :
            /\ schedule.events[id].persons[i] \in DOMAIN schedule.persons
            /\ ~index_PersonId(schedule, schedule.events[id].persons[i]).panicked

\* two events are stored and the one imported first names a person the one
\* imported last does not
C21_Witness ==
    /\ Converted
    /\ Len(Source) = 2
    /\ Source[1].guid # Source[2].guid
    /\ \E i \in DOMAIN schedule.events[Source[1].guid].persons :
        \A j \in DOMAIN schedule.events[Source[2].guid].persons :
            schedule.events[Source[1].guid].persons[i] #
                schedule.events[Source[2].guid].persons[j]

\* C22: the keys of the time map are the starts of the stored events, and every
\* stored event is listed once, under its start
C22_TimeMapExact ==
    Converted =>
        /\ Keys = {Start(id) : id \in Events}
        /\ \A id \in Events : \A key \in Keys :
            Listed(key, id) = IF key = Start(id) THEN 1 ELSE 0

\* C23: the duration of a stored event is the imported time of day in seconds
\* and is not negative; end() is start + duration and not before start
C23_EndIsStartPlusDuration ==
    Converted =>
        \A id \in Events :
            LET event == schedule.events[id]
                time == LastImported(id).duration
            IN  /\ event.duration = time.hours * 3600 + time.minutes * 60 + time.seconds
                /\ event.duration >= 0
                /\ end(event) = event.start + event.duration
                /\ end(event) >= event.start

\* an event of an hour and a second is stored
C23_Witness ==
    /\ Converted
    /\ \E id \in Events :
        /\ LastImported(id).duration.hours = 1
        /\ end(schedule.events[id]) = Start(id) + 3601

\* C24: the lookup of an id that is no key of the mapping panics and yields no
\* Event and no Person
C24_LookupMisuse ==
    probe.called =>
        LET mapping == IF probe.kind = "EventId" THEN schedule.events ELSE schedule.persons
        IN  probe.id \notin DOMAIN mapping =>
                probe.result.panicked /\ probe.result.value = None

\* an id that is no key was looked up in a mapping that has entries, of
\* either kind
C24_Witness ==
    /\ probe.called
    /\ Events # {}
    /\ DOMAIN schedule.persons # {}
    /\ probe.id \notin Events \cup DOMAIN schedule.persons
    /\ probe.result.panicked

----------------------------------------------------------------------------
(* The Schedule and the selection over a run, under Spec *)

\* C25: no dispatched intent changes the event mapping, the person mapping or
\* the time map, whether the dispatch completes or panics
C25_ScheduleImmutable ==
    \A a \in {Exit} \cup {Select(to) : to \in To} \cup {SwitchTo(m) : m \in Mode}
             \cup {Scroll(d) : d \in VerticalDirection} :
        Dispatched(a) =>
            /\ schedule.events = before.schedule.events
            /\ schedule.persons = before.schedule.persons
            /\ schedule.time_map = before.schedule.time_map

\* a Select changed the row: relative was called and found the target
C25_Witness ==
    /\ \E to \in To : RowChangedBy(to)
    /\ schedule = before.schedule

\* the state State::new builds from the schedule
InitialState ==
    [schedule |-> schedule,
     mode |-> "Grid",
     selection |-> [row |-> Earliest, idx |-> 0],
     grid_state |-> [scroll_at |-> Earliest],
     single_state |-> [scroll_at |-> 0],
     panicked |-> FALSE]

\* the ids of the events selected in s and after each of k Select(Right) from s
RECURSIVE SelectedAlong(_, _)
SelectedAlong(s, k) ==
    IF s.panicked THEN {}
    ELSE {IndexCoord(s.schedule, s.selection).id} \cup
         (IF k = 0 THEN {} ELSE SelectedAlong(update(s, Select("Right")), k - 1))

\* C26: every stored event is the selected event after some number of
\* Select(Right) from the initial state, fewer than there are events
C26_EveryEventReachable ==
    Events \subseteq SelectedAlong(InitialState, Cardinality(Events) - 1)

\* the run has selected an event that has no slot in the Grid
C26_Witness ==
    /\ pc = "running"
    /\ Dispatched(Select("Right"))
    /\ LET id == IndexCoord(schedule, selection).id
           timeline == ScheduleGridNew(schedule)
       IN  \A T \in Keys : \A c \in 1..COLUMNS : timeline[T][c] # Some(id)

----------------------------------------------------------------------------
(* The selection and the Grid, under Spec *)

\* the Grid View::draw builds in this state
GridNow == ScheduleGridNew(schedule)

\* the selected event
Selected == IndexCoord(schedule, selection).id

\* the columns of the Grid row of T not held by an event that started before T,
\* lowest first
Open(T) ==
    SortedSeq({c \in 1..COLUMNS : GridNow[T][c] = None \/ Start(GridNow[T][c][1]) = T})

\* C27 as stated: in every state of the run the selected event is the event in
\* the Grid slot at the selection's row and column
C27_SelectionIsGridSlot ==
    pc = "running" =>
        /\ selection.idx < COLUMNS
        /\ GridNow[selection.row][selection.idx + 1] = Some(Selected)

\* C27 amended: in every state of the run the selected event is the one at the
\* selection's index in the list of events starting at the selection's row; in
\* the Grid row it holds the column of that rank among the columns not held by
\* earlier events, and no column when there are not that many
C27_SelectionIsListIndex ==
    pc = "running" =>
        /\ Selected = Line(selection.row)[selection.idx + 1]
        /\ ColumnsOf(GridNow[selection.row], Selected) =
               IF selection.idx < Len(Open(selection.row))
               THEN {Open(selection.row)[selection.idx + 1]}
               ELSE {}

\* the selection was moved onto an event whose Grid column is not the
\* selection's index
C27_Witness ==
    /\ pc = "running"
    /\ Dispatched(Select("Right"))
    /\ selection.idx < COLUMNS
    /\ ColumnsOf(GridNow[selection.row], Selected) # {}
    /\ GridNow[selection.row][selection.idx + 1] # Some(Selected)

----------------------------------------------------------------------------
(* Activity and capacity in the ScheduleGrid, under SpecGrid *)

\* C28 as stated: every event recorded in the row of T has started and has not
\* ended at T
C28_RecordedIsActive ==
    Drawn =>
        \A T \in Keys : \A id \in Reported(Timeline[T]) : Start(id) <= T /\ T < End(id)

\* the events that start at T or have started before and not ended at T
Present(T) == {id \in Events : Start(id) = T \/ (Start(id) < T /\ T < End(id))}

\* C28 amended: every event recorded in the row of T starts at T or has started
\* before T and not ended at T; an event of duration zero is recorded in the row
\* of its start, and in that row only
C28_RecordedIsPresent ==
    Drawn =>
        \A T \in Keys : \A id \in Reported(Timeline[T]) : id \in Present(T)

\* an event of duration zero is recorded in the row of its start, and an event
\* that ends at a later timestamp is not recorded in the row of that timestamp
C28_Witness ==
    /\ Drawn
    /\ \E id \in Events : End(id) = Start(id) /\ id \in Reported(Timeline[Start(id)])
    /\ \E id \in Events : \E T \in Keys :
        /\ Start(id) < T /\ End(id) = T
        /\ Placed(id)
        /\ id \notin Reported(Timeline[T])

\* C29 as stated: if no timestamp has more than COLUMNS events started and not
\* ended, every event is in the row of its start
C29_DroppedOnlyWhenOverlapping ==
    Drawn =>
        ((\A T \in Keys : Cardinality(Overlapping(T)) <= COLUMNS) =>
            \A id \in Events : Placed(id))

\* C29 amended: if no timestamp has more than COLUMNS events that start at it or
\* have started before and not ended, every event is in the row of its start
C29_DroppedOnlyWhenFull ==
    Drawn =>
        ((\A T \in Keys : Cardinality(Present(T)) <= COLUMNS) =>
            \A id \in Events : Placed(id))

\* a schedule of more than COLUMNS events, never more than COLUMNS of them
\* present, is drawn with every event placed
C29_Witness ==
    /\ Drawn
    /\ Cardinality(Events) > COLUMNS
    /\ \A T \in Keys : Cardinality(Present(T)) <= COLUMNS
    /\ \A id \in Events : Placed(id)

----------------------------------------------------------------------------
(* The number of Grid constructions, under SpecGrid *)

\* C30: the Grid is built once in a run: no frame after the first calls
\* ScheduleGrid::new again
C30_BuiltOnce == built <= 1

----------------------------------------------------------------------------
(* Grid-mode scroll, Exit and the validity of the selection, under Spec *)

\* C31: in Grid mode Scroll(Down) moves the grid scroll position to the next
\* timestamp of the time map and Scroll(Up) to the previous one, where there is
\* one, and the position is always a key of the time map
C31_GridScrollByRow ==
    /\ grid_state.scroll_at \in Keys
    /\ \A d \in VerticalDirection :
        (Dispatched(Scroll(d)) /\ before.mode = "Grid") =>
            LET n == IF d = "Down" THEN 1 ELSE -1
                target == EntryAway(before.grid_state.scroll_at, n)
            IN  IF target = {}
                THEN grid_state.scroll_at = before.grid_state.scroll_at
                ELSE grid_state.scroll_at \in target

\* C32: Exit leaves the mode, the selection and both scroll states as they
\* were and ends the run; the run has ended only if the last intent was Exit
C32_ExitOnly ==
    /\ Dispatched(Exit) =>
        /\ pc = "exited"
        /\ mode = before.mode
        /\ selection = before.selection
        /\ grid_state = before.grid_state
        /\ single_state = before.single_state
    /\ pc # "running" => Dispatched(Exit)

\* the intents of C33
Harmless ==
    {Select("Left"), Select("Right")} \cup {SwitchTo(m) : m \in Mode}
        \cup {Scroll(d) : d \in VerticalDirection}

\* C33: while the run goes on, the selection's row is a key of the time map and
\* its index is below the number of events starting at that row, and the next
\* Select(Left), Select(Right), SwitchTo or Scroll does not panic
C33_CursorConsistent ==
    pc = "running" =>
        /\ selection.row \in Keys
        /\ selection.idx \in 0..(Len(Line(selection.row)) - 1)
        /\ IndexCoord(schedule, selection).id \in Events
        /\ \A a \in Harmless : ~update(Current, a).panicked

\* in Single mode a Select(Right) moved the selection from an index its new row
\* does not have
C33_Witness ==
    /\ pc = "running"
    /\ mode = "Single"
    /\ RowChangedBy("Right")
    /\ before.selection.idx >= Len(Line(selection.row))
    /\ selection.idx = 0

====
